---- MODULE Spec2Model ----
(***************************************************************************)
(* projj command engine (lib/base_command.js): Command.run, init,         *)
(* loadConfig, runHook, runScript and addRepo, together with the          *)
(* repository index (lib/cache.js) they drive.                            *)
(*                                                                         *)
(* Strings that the code inspects character by character (paths) are      *)
(* sequences of one-character strings: "/h/.p" is <<"/","h","/",".","p">>. *)
(***************************************************************************)
EXTENDS Integers, Sequences, FiniteSets, TLC

\* Number of command invocations (process runs) in one behaviour.
MaxRuns == 2

-----------------------------------------------------------------------------
(* Strings and paths (node's posix path module, as used by the code).       *)

Last(s) == s[Len(s)]

\* Segments of a path between "/" separators.
RECURSIVE SplitFrom(_, _, _)
SplitFrom(s, i, cur) ==
  IF i > Len(s) THEN <<cur>>
  ELSE IF s[i] = "/" THEN <<cur>> \o SplitFrom(s, i + 1, <<>>)
  ELSE SplitFrom(s, i + 1, Append(cur, s[i]))

Split(s) == SplitFrom(s, 1, <<>>)

\* path.normalize's segment walk: drops "" and ".", resolves "..".
RECURSIVE NormSegs(_, _, _)
NormSegs(segs, abs, acc) ==
  IF segs = <<>> THEN acc
  ELSE LET g == Head(segs)
           rest == Tail(segs)
       IN IF g = <<>> \/ g = <<".">> THEN NormSegs(rest, abs, acc)
          ELSE IF g = <<".", ".">>
            THEN IF acc # <<>> /\ Last(acc) # <<".", ".">>
                   THEN NormSegs(rest, abs, SubSeq(acc, 1, Len(acc) - 1))
                   ELSE IF abs THEN NormSegs(rest, abs, acc)
                               ELSE NormSegs(rest, abs, Append(acc, g))
            ELSE NormSegs(rest, abs, Append(acc, g))

RECURSIVE JoinSegs(_)
JoinSegs(segs) ==
  IF segs = <<>> THEN <<>>
  ELSE IF Len(segs) = 1 THEN Head(segs)
  ELSE Head(segs) \o <<"/">> \o JoinSegs(Tail(segs))

IsAbsolute(p) == p # <<>> /\ p[1] = "/"

\* path.normalize
Normalize(p) ==
  IF p = <<>> THEN <<".">>
  ELSE LET abs == IsAbsolute(p)
           trail == Last(p) = "/"
           body == JoinSegs(NormSegs(Split(p), abs, <<>>))
           b2 == IF body = <<>> /\ ~abs THEN <<".">> ELSE body
           b3 == IF b2 # <<>> /\ trail THEN b2 \o <<"/">> ELSE b2
       IN IF abs THEN <<"/">> \o b3 ELSE b3

\* path.join(a, b)
PathJoin(a, b) ==
  IF a = <<>> THEN Normalize(b)
  ELSE IF b = <<>> THEN Normalize(a)
  ELSE Normalize(a \o <<"/">> \o b)

\* path.dirname, for the normalized paths the code applies it to
Dirname(p) ==
  LET segs == Split(p)
      d == JoinSegs(SubSeq(segs, 1, Len(segs) - 1))
  IN IF d = <<>> THEN (IF IsAbsolute(p) THEN <<"/">> ELSE <<".">>) ELSE d

-----------------------------------------------------------------------------
(* JavaScript objects are functions from property names to values.          *)

\* Object.assign({}, a, b): b's properties win.
Assign(a, b) ==
  [n \in DOMAIN a \cup DOMAIN b |-> IF n \in DOMAIN b THEN b[n] ELSE a[n]]

EmptyObj == [n \in {} |-> <<>>]

Has(obj, n) == n \in DOMAIN obj

\* JSON values stored under a hook's name in the configuration.
JNull == [t |-> "null"]
JBool(b) == [t |-> "boolean", b |-> b]
JNum(n) == [t |-> "number", n |-> n]
JStr(s) == [t |-> "string", s |-> s]
JObj(n) == [t |-> "object", a |-> n]

\* JavaScript truthiness of a JSON value.
Truthy(v) ==
  CASE v.t = "null" -> FALSE
    [] v.t = "boolean" -> v.b
    [] v.t = "number" -> v.n # 0
    [] v.t = "string" -> v.s # ""
    [] OTHER -> TRUE

\* JSON.stringify of a JSON value.
Stringify(v) ==
  CASE v.t = "null" -> "null"
    [] v.t = "boolean" -> (IF v.b THEN "true" ELSE "false")
    [] v.t = "number" -> ToString(v.n)
    [] v.t = "string" -> "\"" \o v.s \o "\""
    [] OTHER -> "{\"a\":" \o ToString(v.a) \o "}"

-----------------------------------------------------------------------------
(* Module-level constants of base_command.js.                               *)

HOME == <<"/", "h">>

configDir == PathJoin(HOME, <<".", "p">>)
configPath == PathJoin(configDir, <<"c">>)
cachePath == PathJoin(configDir, <<"i">>)

\* path.join(__dirname, 'ssh.js')
sshHelper == <<"/", "l", "/", "s">>

\* `${configDir}/hooks`
hooksDir == configDir \o <<"/", "k">>

defaults ==
  [n \in {"base", "hooks", "alias"} |->
     CASE n = "base" -> HOME \o <<"/", "j">>
       [] n = "hooks" -> EmptyObj
       [] n = "alias" -> [x \in {"github://"} |-> "https://github.com/"]]

-----------------------------------------------------------------------------
(* Inputs.                                                                  *)

\* Operating-system processes that may run the command.  Spec runs the
\* invocations one after another, as process 1.
Procs == {1, 2}
FirstProc == {1}

U1 == "https://e.com/a"
U2 == "https://e.com/b"
U3 == "git@e.com:a"
K1 == <<"e", "/", "a">>
K2 == <<"e", "/", "b">>

\* (repo, cacheKey) pairs handed to addRepo by the add command.
AddArgs == {<<U1, K1>>, <<U2, K2>>, <<U3, K1>>}

W == <<"/", "w">>

\* Ambient process environments.
EnvPlain ==
  [n \in {"PATH", "LANG"} |-> IF n = "PATH" THEN << <<"/", "b">> >> ELSE "C"]
EnvLoaded ==
  [n \in {"GIT_SSH", "PROJJ_HOOK_NAME", "PROJJ_HOOK_CONFIG", "LANG"} |->
     CASE n = "GIT_SSH" -> <<"/", "u">>
       [] n = "PROJJ_HOOK_NAME" -> "ambient"
       [] n = "PROJJ_HOOK_CONFIG" -> "ambient"
       [] n = "LANG" -> "C"]
Envs == {EnvPlain, EnvLoaded}

Cwds == {<<"/", "c">>, W}

HookNames == {"preadd", "postadd"}

HookTables ==
  {[n \in S |-> "echo " \o n] : S \in SUBSET HookNames}

HookConfigs == {JNull, JBool(FALSE), JNum(0), JStr(""), JObj(1)}

\* Contents of ~/.projj/config.json that parse.
ConfigFiles ==
  {[n \in {"base", "hooks"} |-> IF n = "base" THEN W ELSE h] : h \in HookTables}
  \cup
  {[n \in {"base", "hooks", "preadd"} |->
      CASE n = "base" -> W [] n = "hooks" -> h [] n = "preadd" -> v] :
      h \in HookTables, v \in HookConfigs}
  \cup
  {[n \in {"base", "hooks", "postadd"} |->
      CASE n = "base" -> W
        [] n = "hooks" -> [x \in HookNames |-> "echo " \o x]
        [] n = "postadd" -> JObj(1)]}
  \cup
  {[n \in {"base", "hooks"} |->
      IF n = "base" THEN W ELSE [x \in {"preadd"} |-> ""]]}
  \cup
  {[n \in {"base"} |-> b] :
      b \in {<<".", "/", "w">>, <<"~", "/", "w">>, <<"w">>, <<>>}}
  \cup
  {[n \in {"hooks"} |-> [x \in {"preadd"} |-> "echo preadd"]]}

\* Answers the first-run prompt can return (the offered default among them).
PromptAnswers == {defaults["base"], <<"w">>}

\* How a subprocess run by runscript can end.
RunOutcomes ==
  {[kind |-> "ok", stderr |-> ""],
   [kind |-> "exit", stderr |-> "boom"],
   [kind |-> "exit", stderr |-> ""],
   [kind |-> "spawn", stderr |-> ""]}

-----------------------------------------------------------------------------
VARIABLES
  env,       \* process.env
  cwd,       \* process.cwd()
  cfgFile,   \* ~/.projj/config.json: [state, content]
  disk,      \* ~/.projj/cache.json: the persisted index
  fs,        \* directories that exist (working copies)
  started,   \* invocations started so far
  pc,        \* pc[p]: position of process p in Command.run
  args,      \* args[p]: <<repo, cacheKey>> of the add
  config,    \* config[p]: this.config
  cache,     \* cache[p]: the in-memory index of this.cache
  err,       \* err[p]: the error travelling to run's catch
  log,       \* log[p]: what the process did (subprocesses, output, index calls)
  exitCode,  \* exitCode[p]: -1 while running
  partial,   \* an argument of resolveConfig
  results,   \* the results of resolving it once, then twice
  url,       \* a repository URL given to the URL normalizer
  alias,     \* the alias table it is normalized under
  dirs       \* the canonical paths computed for it

vars == <<env, cwd, cfgFile, disk, fs, started, pc, args, config, cache, err,
          log, exitCode, partial, results, url, alias, dirs>>

\* The variables that only the checks of the pure functions use.
pure == <<partial, results, url, alias, dirs>>

PureIdle ==
  /\ partial = EmptyObj
  /\ results = <<>>
  /\ url = <<>>
  /\ alias = <<>>
  /\ dirs = <<>>

globals == <<env, cwd>>

NoErr == [name |-> "", at |-> ""]
Error(name, at) == [name |-> name, at |-> at]

NoCwd == [set |-> FALSE, path |-> <<>>]

\* One entry of log[p]: a call, a line of output or the end of a child.
Event(ev, what, res) ==
  [ev |-> ev, what |-> what, res |-> res, cmd |-> "", path |-> <<>>,
   env |-> EmptyObj, cwd |-> NoCwd]
\* runscript(cmd, opt) starting a child: `path` is the clone's target
Spawn(what, cmd, path, e, c) ==
  [ev |-> "spawn", what |-> what, res |-> "", cmd |-> cmd, path |-> path,
   env |-> e, cwd |-> c]

Init ==
  /\ env \in Envs
  /\ cwd \in Cwds
  /\ cfgFile \in {[state |-> "absent", content |-> EmptyObj],
                  [state |-> "malformed", content |-> EmptyObj]}
                 \cup {[state |-> "ok", content |-> c] : c \in ConfigFiles}
  /\ disk = EmptyObj
  /\ fs = {}
  /\ started = 0
  /\ pc = [p \in Procs |-> "idle"]
  /\ args = [p \in Procs |-> <<U1, K1>>]
  /\ config = [p \in Procs |-> EmptyObj]
  /\ cache = [p \in Procs |-> EmptyObj]
  /\ err = [p \in Procs |-> NoErr]
  /\ log = [p \in Procs |-> <<>>]
  /\ exitCode = [p \in Procs |-> -1]
  /\ PureIdle

-----------------------------------------------------------------------------
(* lib/base_command.js                                                      *)

\* resolveConfig with the `case '/'` of lines 183-184 missing: an absolute
\* base falls through to the default and is joined to process.cwd().
resolveConfig_RootJoinsCwd(c, defs, dir) ==
  LET merged == Assign(defs, c)
      base == merged["base"]
      first == IF base = <<>> THEN "" ELSE base[1]
      resolved ==
        CASE first = "." -> PathJoin(Dirname(configPath), base)
          [] first = "~" -> HOME \o Tail(base)
          [] OTHER -> PathJoin(dir, base)
  IN [merged EXCEPT !["base"] = resolved]

\* resolveConfig with the default of lines 185-186 missing: a bare base is
\* kept as it was written.
resolveConfig_KeepsBare(c, defs, dir) ==
  LET merged == Assign(defs, c)
      base == merged["base"]
      first == IF base = <<>> THEN "" ELSE base[1]
      resolved ==
        CASE first = "." -> PathJoin(Dirname(configPath), base)
          [] first = "~" -> HOME \o Tail(base)
          [] OTHER -> base
  IN [merged EXCEPT !["base"] = resolved]

\* resolveConfig(config, defaults), with process.cwd() = dir
resolveConfig(c, defs, dir) ==
  LET merged == Assign(defs, c)
      base == merged["base"]
      first == IF base = <<>> THEN "" ELSE base[1]
      resolved ==
        CASE first = "." -> PathJoin(Dirname(configPath), base)
          [] first = "~" -> HOME \o Tail(base)
          [] first = "/" -> base
          [] OTHER -> PathJoin(dir, base)
  IN [merged EXCEPT !["base"] = resolved]

\* fs.exists(path): relative paths are looked up from process.cwd()
Exists(path) ==
  (IF IsAbsolute(path) THEN Normalize(path) ELSE PathJoin(cwd, path)) \in fs

\* lib/cache.js, the repository index.
\* Cache.get(): the persisted index read into memory
Cache_load(file) == file
\* Cache.get(key) on a loaded index: is there an entry?
Cache_get(index, key) == Has(index, key)
\* Cache.set(key, value): a staged upsert
Cache_set(index, key, value) == Assign(index, [k \in {key} |-> value])
\* Cache.dump(): the file is overwritten by the in-memory index
Cache_dump(index) == index

\* throw err inside the generator chain of run: control moves to run's catch
Throw(p, e) ==
  /\ pc' = [pc EXCEPT ![p] = "catch"]
  /\ err' = [err EXCEPT ![p] = e]

Goto(p, next) ==
  /\ pc' = [pc EXCEPT ![p] = next]
  /\ err' = err

\* Positions at which no process is running in the slot: never started, run
\* returned, process.exit(1) was called, or the process was killed.
Stopped == {"idle", "done", "exited", "crashed"}

\* A new process starts `projj add`: Command.constructor, then run.
Start(p) ==
  /\ pc[p] \in Stopped
  /\ \A q \in Procs \ {p} : pc[q] \in Stopped
  /\ started < MaxRuns
  /\ started' = started + 1
  /\ \E a \in AddArgs : args' = [args EXCEPT ![p] = a]
  /\ pc' = [pc EXCEPT ![p] = "loadConfig"]
  /\ config' = [config EXCEPT ![p] = EmptyObj]
  /\ cache' = [cache EXCEPT ![p] = EmptyObj]
  /\ err' = [err EXCEPT ![p] = NoErr]
  /\ log' = [log EXCEPT ![p] = <<>>]
  /\ exitCode' = [exitCode EXCEPT ![p] = -1]
  /\ UNCHANGED <<pure, env, cwd, cfgFile, disk, fs>>

\* The prompt-and-write tail of loadConfig (lines 79-88).
PromptAndWrite(p) ==
  \E answer \in PromptAnswers, written \in BOOLEAN :
    LET c == resolveConfig([n \in {"base"} |-> answer], defaults, cwd)
    IN /\ config' = [config EXCEPT ![p] = c]
       /\ IF written
            THEN /\ cfgFile' = [state |-> "ok", content |-> c]
                 /\ log' = [log EXCEPT ![p] =
                              @ \o <<Event("prompt", "base", "ok"),
                                     Event("writeConfig", "", "ok")>>]
                 /\ Goto(p, "cacheGet")
            ELSE /\ cfgFile' = cfgFile
                 /\ log' = [log EXCEPT ![p] =
                              @ \o <<Event("prompt", "base", "ok"),
                                     Event("writeConfig", "", "failed")>>]
                 /\ Throw(p, Error("IOError", "loadConfig"))

\* loadConfig without the early return of lines 73-76: the prompt is shown
\* and the file rewritten on every run.
LoadConfig_AlwaysPrompts(p) ==
  /\ pc[p] = "loadConfig"
  /\ UNCHANGED <<pure, env, cwd, disk, fs, started, args, cache, exitCode>>
  /\ \/ \* mkdir(configDir) rejects
        /\ Throw(p, Error("IOError", "loadConfig"))
        /\ log' = [log EXCEPT ![p] = Append(@, Event("mkdir", "", "failed"))]
        /\ UNCHANGED <<cfgFile, config>>
     \/ /\ cfgFile.state = "malformed"
        /\ Throw(p, Error("SyntaxError", "loadConfig"))
        /\ log' = [log EXCEPT ![p] =
                     Append(@, Event("readConfig", "", "failed"))]
        /\ UNCHANGED <<cfgFile, config>>
     \/ /\ cfgFile.state = "ok"
        /\ LET c == cfgFile.content
           IN PromptAndWrite(p)
     \/ /\ cfgFile.state = "absent"
        /\ PromptAndWrite(p)

\* loadConfig with a parse error of the file swallowed: the command goes on
\* with the defaults.
LoadConfig_IgnoresMalformed(p) ==
  /\ pc[p] = "loadConfig"
  /\ UNCHANGED <<pure, env, cwd, disk, fs, started, args, cache, exitCode>>
  /\ \/ \* mkdir(configDir) rejects
        /\ Throw(p, Error("IOError", "loadConfig"))
        /\ log' = [log EXCEPT ![p] = Append(@, Event("mkdir", "", "failed"))]
        /\ UNCHANGED <<cfgFile, config>>
     \/ /\ cfgFile.state = "malformed"
        /\ Goto(p, "cacheGet")
        /\ log' = [log EXCEPT ![p] =
                     Append(@, Event("readConfig", "", "failed"))]
        /\ config' = [config EXCEPT ![p] =
                        resolveConfig(EmptyObj, defaults, cwd)]
        /\ cfgFile' = cfgFile
     \/ /\ cfgFile.state = "ok"
        /\ LET c == resolveConfig(cfgFile.content, defaults, cwd)
           IN IF c["base"] # <<>>
                THEN /\ config' = [config EXCEPT ![p] = c]
                     /\ Goto(p, "cacheGet")
                     /\ log' = [log EXCEPT ![p] =
                                  Append(@, Event("readConfig", "", "ok"))]
                     /\ cfgFile' = cfgFile
                ELSE PromptAndWrite(p)
     \/ /\ cfgFile.state = "absent"
        /\ PromptAndWrite(p)

\* Command.loadConfig
LoadConfig(p) ==
  /\ pc[p] = "loadConfig"
  /\ UNCHANGED <<pure, env, cwd, disk, fs, started, args, cache, exitCode>>
  /\ \/ \* mkdir(configDir) rejects
        /\ Throw(p, Error("IOError", "loadConfig"))
        /\ log' = [log EXCEPT ![p] = Append(@, Event("mkdir", "", "failed"))]
        /\ UNCHANGED <<cfgFile, config>>
     \/ /\ cfgFile.state = "malformed"
        /\ Throw(p, Error("SyntaxError", "loadConfig"))
        /\ log' = [log EXCEPT ![p] =
                     Append(@, Event("readConfig", "", "failed"))]
        /\ UNCHANGED <<cfgFile, config>>
     \/ /\ cfgFile.state = "ok"
        /\ LET c == resolveConfig(cfgFile.content, defaults, cwd)
           IN IF c["base"] # <<>>
                THEN /\ config' = [config EXCEPT ![p] = c]
                     /\ Goto(p, "cacheGet")
                     /\ log' = [log EXCEPT ![p] =
                                  Append(@, Event("readConfig", "", "ok"))]
                     /\ cfgFile' = cfgFile
                ELSE PromptAndWrite(p)
     \/ /\ cfgFile.state = "absent"
        /\ PromptAndWrite(p)

\* init with a failed index load swallowed: the command carries on with an
\* empty index.
CacheLoad_IgnoresFailure(p) ==
  /\ pc[p] = "cacheGet"
  /\ UNCHANGED <<pure, env, cwd, cfgFile, disk, fs, started, args, config, exitCode>>
  /\ \/ /\ cache' = [cache EXCEPT ![p] = Cache_load(disk)]
        /\ log' = [log EXCEPT ![p] = Append(@, Event("load", "", "ok"))]
        /\ Goto(p, "preadd")
     \/ /\ cache' = cache
        /\ log' = [log EXCEPT ![p] = Append(@, Event("load", "", "failed"))]
        /\ Goto(p, "preadd")

\* init's `yield this.cache.get()`: the index file is read into memory
CacheLoad(p) ==
  /\ pc[p] = "cacheGet"
  /\ UNCHANGED <<pure, env, cwd, cfgFile, disk, fs, started, args, config, exitCode>>
  /\ \/ /\ cache' = [cache EXCEPT ![p] = Cache_load(disk)]
        /\ log' = [log EXCEPT ![p] = Append(@, Event("load", "", "ok"))]
        /\ Goto(p, "preadd")
     \/ /\ cache' = cache
        /\ log' = [log EXCEPT ![p] = Append(@, Event("load", "", "failed"))]
        /\ Throw(p, Error("IOError", "cacheGet"))

\* The error runscript rejects with for an outcome.
RunscriptError(o, what) ==
  IF o.kind = "exit" THEN Error("RunScriptError", what)
                     ELSE Error("SpawnError", what)

\* What the catch block of runScript (lines 125-131) throws: reading
\* err.stdio.stderr of an error without stdio raises a TypeError instead.
RunScriptThrows(o, what) ==
  IF o.kind = "spawn" THEN Error("TypeError", what) ELSE RunscriptError(o, what)

\* Lines written by runScript for one child: its piped stdout, then on
\* failure the captured stderr, if any, through childLogger.info.
RunScriptOutput(o, what, piped) ==
  (IF piped THEN <<Event("stdout", what, "")>> ELSE <<>>)
  \o <<Event("exit", what, o.kind)>>
  \o (IF o.kind = "exit" /\ o.stderr # "" THEN <<Event("stderr", what, "")>>
                                          ELSE <<>>)

\* runHook without the early return of line 91: a hook with no command is
\* handed to the subprocess runner like any other.
HookConfigured_Always(p, name) == TRUE

\* runHook line 91: is there a command for this hook?
HookConfigured(p, name) ==
  Has(config[p]["hooks"], name) /\ config[p]["hooks"][name] # ""

\* runHook line 92: this.config.hooks[name]
HookCommand(p, name) ==
  IF Has(config[p]["hooks"], name) THEN config[p]["hooks"][name]
                                   ELSE "undefined"

\* runHook lines 93-99: the overlay
HookOverlay(p, name) ==
  LET path == <<hooksDir>>
                \o (IF Has(env, "PATH") THEN env["PATH"]
                                        ELSE << <<"u", "n", "d">> >>)
      basic == [n \in {"PATH", "PROJJ_HOOK_NAME"} |->
                  IF n = "PATH" THEN path ELSE name]
  IN IF Has(config[p], name) /\ Truthy(config[p][name])
       THEN Assign(basic, [n \in {"PROJJ_HOOK_CONFIG"} |->
                             Stringify(config[p][name])])
       ELSE basic

\* The merge of lines 100-102 with its arguments swapped: the ambient
\* environment wins.
HookEnv_AmbientWins(p, name) == Assign(HookOverlay(p, name), env)

\* runHook lines 100-102
HookEnv(p, name) == Assign(env, HookOverlay(p, name))

\* The working directory taken to be base/key whether or not key is indexed.
HookCwd_AlwaysBase(p, key) ==
  LET dir == PathJoin(config[p]["base"], key)
  IN IF dir # <<>> /\ Exists(dir) THEN [set |-> TRUE, path |-> dir]
                                  ELSE NoCwd

\* runHook lines 104-110
HookCwd(p, key) ==
  LET dir == IF Cache_get(cache[p], key) THEN PathJoin(config[p]["base"], key)
                                 ELSE key
  IN IF dir # <<>> /\ Exists(dir) THEN [set |-> TRUE, path |-> dir]
                                  ELSE NoCwd

\* runHook with the failure of the hook's child swallowed.
RunHook_IgnoresFailure(p, name, next) ==
  /\ pc[p] = name
  /\ UNCHANGED <<pure, env, cwd, cfgFile, disk, fs, started, args, config, cache,
                 exitCode>>
  /\ IF ~HookConfigured(p, name)
       THEN /\ log' = [log EXCEPT ![p] = Append(@, Event("hook", name, ""))]
            /\ Goto(p, next)
       ELSE \E o \in RunOutcomes :
              /\ log' = [log EXCEPT ![p] =
                   @ \o <<Event("hook", name, ""),
                          Event("get", name, ""),
                          Event("info", "Run hook", ""),
                          Spawn(name, HookCommand(p, name), <<>>,
                                HookEnv(p, name), HookCwd(p, args[p][2]))>>
                     \o RunScriptOutput(o, name, TRUE)]
              /\ Goto(p, next)

\* Command.runHook(name, cacheKey), called at pc = name
RunHook(p, name, next) ==
  /\ pc[p] = name
  /\ UNCHANGED <<pure, env, cwd, cfgFile, disk, fs, started, args, config, cache,
                 exitCode>>
  /\ IF ~HookConfigured(p, name)
       THEN /\ log' = [log EXCEPT ![p] = Append(@, Event("hook", name, ""))]
            /\ Goto(p, next)
       ELSE \E o \in RunOutcomes :
              /\ log' = [log EXCEPT ![p] =
                   @ \o <<Event("hook", name, ""),
                          Event("get", name, ""),
                          Event("info", "Run hook", ""),
                          Spawn(name, HookCommand(p, name), <<>>,
                                HookEnv(p, name), HookCwd(p, args[p][2]))>>
                     \o RunScriptOutput(o, name, TRUE)]
              /\ IF o.kind = "ok" THEN Goto(p, next)
                                  ELSE Throw(p, RunScriptThrows(o, name))

PreaddHook(p) == RunHook(p, "preadd", "clone")

PostaddHook(p) == RunHook(p, "postadd", "finish")

\* addRepo line 149
TargetPath(p) == PathJoin(config[p]["base"], args[p][2])

\* The clone's environment without the helper: process.env as it is.
CloneEnv_NoHelper == env

\* addRepo lines 152-154
CloneEnv == Assign([n \in {"GIT_SSH"} |-> sshHelper], env)

\* Clone with the failure of the child swallowed: the workflow carries on.
Clone_IgnoresFailure(p) ==
  /\ pc[p] = "clone"
  /\ UNCHANGED <<pure, env, cwd, cfgFile, disk, started, args, config, cache,
                 exitCode>>
  /\ \E o \in RunOutcomes :
       /\ log' = [log EXCEPT ![p] =
            @ \o <<Event("info", "Cloning into", ""),
                   Spawn("clone", args[p][1], TargetPath(p), CloneEnv, NoCwd)>>
              \o RunScriptOutput(o, "clone", FALSE)]
       /\ fs' = IF o.kind = "ok" THEN fs \cup {TargetPath(p)} ELSE fs
       /\ Goto(p, "set")

\* addRepo lines 149-157: git clone through runScript
Clone(p) ==
  /\ pc[p] = "clone"
  /\ UNCHANGED <<pure, env, cwd, cfgFile, disk, started, args, config, cache,
                 exitCode>>
  /\ \E o \in RunOutcomes :
       /\ log' = [log EXCEPT ![p] =
            @ \o <<Event("info", "Cloning into", ""),
                   Spawn("clone", args[p][1], TargetPath(p), CloneEnv, NoCwd)>>
              \o RunScriptOutput(o, "clone", FALSE)]
       /\ IF o.kind = "ok"
            THEN /\ fs' = fs \cup {TargetPath(p)}
                 /\ Goto(p, "set")
            ELSE /\ fs' = fs
                 /\ Throw(p, RunScriptThrows(o, "clone"))

\* addRepo with the flush of line 160 left out.
CacheSet_SkipsDump(p) ==
  /\ pc[p] = "set"
  /\ cache' = [cache EXCEPT ![p] =
                 Cache_set(@, args[p][2], [repo |-> args[p][1]])]
  /\ log' = [log EXCEPT ![p] = Append(@, Event("set", "", "ok"))]
  /\ Goto(p, "postadd")
  /\ UNCHANGED <<pure, env, cwd, cfgFile, disk, fs, started, args, config, exitCode>>

\* addRepo line 159: this.cache.set(cacheKey, { repo })
\* cache.set that also writes the entry to the index file.
CacheSet_WritesThrough(p) ==
  /\ pc[p] = "set"
  /\ cache' = [cache EXCEPT ![p] =
                 Cache_set(@, args[p][2], [repo |-> args[p][1]])]
  /\ disk' = Cache_set(disk, args[p][2], [repo |-> args[p][1]])
  /\ log' = [log EXCEPT ![p] = Append(@, Event("set", "", "ok"))]
  /\ Goto(p, "dump")
  /\ UNCHANGED <<pure, env, cwd, cfgFile, fs, started, args, config, exitCode>>

CacheSet(p) ==
  /\ pc[p] = "set"
  /\ cache' = [cache EXCEPT ![p] =
                 Cache_set(@, args[p][2], [repo |-> args[p][1]])]
  /\ log' = [log EXCEPT ![p] = Append(@, Event("set", "", "ok"))]
  /\ Goto(p, "dump")
  /\ UNCHANGED <<pure, env, cwd, cfgFile, disk, fs, started, args, config, exitCode>>

\* addRepo line 160: this.cache.dump()
\* cache.dump() that merges the in-memory index into the file instead of
\* overwriting the file with it.
CacheDump_MergesFile(p) ==
  /\ pc[p] = "dump"
  /\ UNCHANGED <<pure, env, cwd, cfgFile, fs, started, args, config, cache, exitCode>>
  /\ \/ /\ disk' = Assign(disk, cache[p])
        /\ log' = [log EXCEPT ![p] = Append(@, Event("dump", "", "ok"))]
        /\ Goto(p, "postadd")
     \/ /\ disk' = disk
        /\ log' = [log EXCEPT ![p] = Append(@, Event("dump", "", "failed"))]
        /\ Throw(p, Error("IOError", "dump"))

CacheDump(p) ==
  /\ pc[p] = "dump"
  /\ UNCHANGED <<pure, env, cwd, cfgFile, fs, started, args, config, cache, exitCode>>
  /\ \/ /\ disk' = Cache_dump(cache[p])
        /\ log' = [log EXCEPT ![p] = Append(@, Event("dump", "", "ok"))]
        /\ Goto(p, "postadd")
     \/ /\ disk' = disk
        /\ log' = [log EXCEPT ![p] = Append(@, Event("dump", "", "failed"))]
        /\ Throw(p, Error("IOError", "dump"))

\* run line 52, then the process ends normally
Finish(p) ==
  /\ pc[p] = "finish"
  /\ log' = [log EXCEPT ![p] = Append(@, Event("info", "Done", ""))]
  /\ exitCode' = [exitCode EXCEPT ![p] = 0]
  /\ Goto(p, "done")
  /\ UNCHANGED <<pure, env, cwd, cfgFile, disk, fs, started, args, config, cache>>

\* run's catch without the process.exit(1): the error is logged and the
\* process ends like a successful one.
Catch_NoExit(p) ==
  /\ pc[p] = "catch"
  /\ log' = [log EXCEPT ![p] = Append(@, Event("error", err[p].name, ""))]
  /\ exitCode' = [exitCode EXCEPT ![p] = 0]
  /\ pc' = [pc EXCEPT ![p] = "exited"]
  /\ err' = err
  /\ UNCHANGED <<pure, env, cwd, cfgFile, disk, fs, started, args, config, cache>>

\* run lines 53-57: this.error(err.message); process.exit(1)
Catch(p) ==
  /\ pc[p] = "catch"
  /\ log' = [log EXCEPT ![p] = Append(@, Event("error", err[p].name, ""))]
  /\ exitCode' = [exitCode EXCEPT ![p] = 1]
  /\ pc' = [pc EXCEPT ![p] = "exited"]
  /\ err' = err
  /\ UNCHANGED <<pure, env, cwd, cfgFile, disk, fs, started, args, config, cache>>

Step(p) ==
  \/ Start(p)
  \/ LoadConfig(p)
  \/ CacheLoad(p)
  \/ PreaddHook(p)
  \/ Clone(p)
  \/ CacheSet(p)
  \/ CacheDump(p)
  \/ PostaddHook(p)
  \/ Finish(p)
  \/ Catch(p)

Next == \E p \in FirstProc : Step(p)

Spec == Init /\ [][Next]_vars

-----------------------------------------------------------------------------
(* Reading log[p].                                                          *)

Key(p) == args[p][2]
Repo(p) == args[p][1]

Idx(p) == DOMAIN log[p]

Is(e, ev, what) == e.ev = ev /\ e.what = what

Happened(p, ev, what) == \E i \in Idx(p) : Is(log[p][i], ev, what)

\* The child `what` of process p ended in failure.
ChildFailed(p, what) ==
  \E i \in Idx(p) : Is(log[p][i], "exit", what) /\ log[p][i].res # "ok"

ChildOk(p, what) ==
  \E i \in Idx(p) : Is(log[p][i], "exit", what) /\ log[p][i].res = "ok"

\* Any call of the add workflow after the clone.
IndexTouched(p) ==
  Happened(p, "set", "") \/ Happened(p, "dump", "")

-----------------------------------------------------------------------------
(* C1: when the clone subprocess of an add fails, cache.set and cache.dump  *)
(* are never called and the postadd hook is never run; the step in which    *)
(* the clone fails and every later step of that invocation leave the        *)
(* in-memory index and the persisted index exactly as they were, so a key   *)
(* that had no entry when addRepo started has none afterwards.              *)
C1_CloneFailureIsolation ==
  /\ [](\A p \in Procs :
          ChildFailed(p, "clone") =>
            /\ ~IndexTouched(p)
            /\ ~Happened(p, "hook", "postadd")
            /\ pc[p] \in {"catch", "exited"})
  /\ [][\A p \in Procs :
          ChildFailed(p, "clone")' =>
            /\ cache'[p] = cache[p]
            /\ disk' = disk
            /\ (~Has(cache[p], Key(p)) => ~Has(cache'[p], Key(p)))
            /\ (~Has(disk, Key(p)) => ~Has(disk', Key(p)))]_vars

\* C1 witness: a failed clone of a key that was not indexed, with a postadd
\* hook configured, after the process has exited.
C1_Witness ==
  \E p \in Procs :
    /\ ChildFailed(p, "clone")
    /\ pc[p] = "exited"
    /\ HookConfigured(p, "postadd")
    /\ ~Has(disk, Key(p))
    /\ ~Has(cache[p], Key(p))

-----------------------------------------------------------------------------
(* C2: when the configured preadd hook fails, the add stops there: no clone *)
(* subprocess is started, the index is neither set nor dumped, the postadd  *)
(* hook is not run, and the step in which the hook fails and every later    *)
(* step of the invocation leave the working copies, the in-memory index and *)
(* the persisted index as they were.                                        *)
C2_PreaddFailureAborts ==
  /\ [](\A p \in Procs :
          ChildFailed(p, "preadd") =>
            /\ ~Happened(p, "spawn", "clone")
            /\ ~IndexTouched(p)
            /\ ~Happened(p, "hook", "postadd")
            /\ pc[p] \in {"catch", "exited"})
  /\ [][\A p \in Procs :
          ChildFailed(p, "preadd")' =>
            /\ fs' = fs
            /\ cache'[p] = cache[p]
            /\ disk' = disk]_vars

\* C2 witness: the preadd hook failed, the process has exited, and the
\* working copy the clone would have made is not there.
C2_Witness ==
  \E p \in Procs :
    /\ ChildFailed(p, "preadd")
    /\ pc[p] = "exited"
    /\ HookConfigured(p, "postadd")
    /\ TargetPath(p) \notin fs
    /\ ~Has(disk, Key(p))

-----------------------------------------------------------------------------
\* The steps of the add workflow, in the order the spec gives them.
AddOrder == <<"preadd", "clone", "set", "dump", "postadd">>

IsStepStart(e) ==
  \/ e.ev \in {"hook", "set", "dump"}
  \/ Is(e, "spawn", "clone")

StepName(e) == IF e.ev = "hook" THEN e.what
               ELSE IF e.ev = "spawn" THEN "clone" ELSE e.ev

\* Positions in log[p] at which a step of the add workflow starts.
StepStarts(p) == {i \in Idx(p) : IsStepStart(log[p][i])}

\* Step `name`, started at position i, has completed successfully before
\* position j.
CompletedBefore(p, name, i, j) ==
  CASE name \in {"preadd", "postadd"} ->
         /\ i < j
         /\ \A k \in Idx(p) :
              Is(log[p][k], "spawn", name) =>
                \E m \in Idx(p) :
                  k < m /\ m < j /\ Is(log[p][m], "exit", name)
                  /\ log[p][m].res = "ok"
    [] name = "clone" ->
         \E m \in Idx(p) :
           i < m /\ m < j /\ Is(log[p][m], "exit", "clone")
           /\ log[p][m].res = "ok"
    [] OTHER -> i < j /\ log[p][i].res = "ok"

(* C3: the steps of addRepo start only in the order preadd hook, clone,     *)
(* index set, index dump, postadd hook, each at most once and each only     *)
(* after the one before it has completed successfully; the output of a      *)
(* preadd hook is written before the clone subprocess starts; and when the  *)
(* command is done there is a working copy at base/key and both the         *)
(* in-memory and the persisted index map key to {repo} with the URL that    *)
(* was passed to addRepo.                                                   *)
C3_AddOrder ==
  \A p \in Procs :
    LET starts == StepStarts(p)
        n == Cardinality(starts)
        \* the k-th step start, in log order
        at(k) == CHOOSE i \in starts :
                   Cardinality({j \in starts : j < i}) = k - 1
    IN /\ n <= Len(AddOrder)
       /\ \A k \in 1..n : StepName(log[p][at(k)]) = AddOrder[k]
       /\ \A k \in 2..n :
            CompletedBefore(p, AddOrder[k - 1], at(k - 1), at(k))
       /\ \A i, j \in Idx(p) :
            Is(log[p][i], "stdout", "preadd") /\ Is(log[p][j], "spawn", "clone")
              => i < j
       /\ pc[p] = "done" =>
            /\ n = Len(AddOrder)
            /\ CompletedBefore(p, "postadd", at(n), Len(log[p]))
            /\ TargetPath(p) \in fs
            /\ Has(cache[p], Key(p)) /\ cache[p][Key(p)] = [repo |-> Repo(p)]
            /\ Has(disk, Key(p)) /\ disk[Key(p)] = [repo |-> Repo(p)]

\* C3 witness: a completed add with both hooks configured, whose key was
\* already indexed under another URL.
C3_Witness ==
  \E p \in Procs :
    /\ pc[p] = "done"
    /\ Happened(p, "stdout", "preadd")
    /\ Happened(p, "stdout", "postadd")
    /\ Repo(p) = U3

-----------------------------------------------------------------------------
\* Lines written by this.error (consoleLogger.error) so far.
ErrorLines(p) == {i \in Idx(p) : log[p][i].ev = "error"}

DonePrinted(p) == Happened(p, "info", "Done")

(* C4: when the postadd hook fails, the working copy stays at base/key and  *)
(* the persisted index keeps key -> {repo}; the failure travels to run's    *)
(* catch, and once the process has exited it has logged the error, its exit *)
(* status is 1 and 'Done' was not printed.                                  *)
C4_PostaddFailureNoRollback ==
  \A p \in Procs :
    ChildFailed(p, "postadd") =>
      /\ TargetPath(p) \in fs
      /\ Has(disk, Key(p)) /\ disk[Key(p)] = [repo |-> Repo(p)]
      /\ pc[p] \in {"catch", "exited"}
      /\ ~DonePrinted(p)
      /\ pc[p] = "exited" =>
           /\ Cardinality(ErrorLines(p)) = 1
           /\ exitCode[p] = 1

\* C4 witness: the postadd hook failed and the process has exited.
C4_Witness ==
  \E p \in Procs :
    /\ ChildFailed(p, "postadd")
    /\ pc[p] = "exited"
    /\ ChildOk(p, "clone")

\* A step of the invocation has failed.
Failures(p) ==
  {i \in Idx(p) :
     \/ log[p][i].res = "failed"
     \/ log[p][i].ev = "exit" /\ log[p][i].res # "ok"}

(* C5: in every invocation a failed step (mkdir, reading the configuration, *)
(* writing it, loading the index, a hook, the clone, the dump) is the last  *)
(* step taken: nothing is retried and only output of that failure follows   *)
(* it; control is then in run's catch or past it; a process that exited     *)
(* through the catch logged exactly one error line and has exit status 1;   *)
(* and 'Done' is printed exactly when the process reached the end of run    *)
(* with no failed step at all.                                              *)
C5_FailureAbortsAndReports ==
  \A p \in Procs :
    /\ Cardinality(Failures(p)) <= 1
    /\ \A i \in Failures(p) :
         /\ pc[p] \in {"catch", "exited"}
         /\ \A j \in Idx(p) : j > i => log[p][j].ev \in {"stderr", "error"}
    /\ pc[p] = "catch" => Failures(p) # {} /\ ErrorLines(p) = {}
    /\ pc[p] = "exited" =>
         /\ Failures(p) # {}
         /\ Cardinality(ErrorLines(p)) = 1
         /\ exitCode[p] = 1
    /\ pc[p] \notin {"catch", "exited"} => ErrorLines(p) = {}
    /\ DonePrinted(p) <=> (pc[p] = "done" /\ Failures(p) = {})
    /\ pc[p] = "done" => exitCode[p] = 0 /\ Happened(p, "dump", "")

\* C5 witness: an invocation that failed while loading the index, and has
\* exited.
C5_Witness ==
  \E p \in Procs :
    /\ pc[p] = "exited"
    /\ Happened(p, "load", "")
    /\ ~Happened(p, "hook", "preadd")

-----------------------------------------------------------------------------
\* The hook whose runHook call is the next step of p, if any.
AtHook(p, name) == pc[p] = name /\ name \in HookNames

HookSpawns(p) ==
  {i \in Idx(p) : log[p][i].ev = "spawn" /\ log[p][i].what \in HookNames}

(* C7: a hook subprocess is started with working directory base/key when    *)
(* key is in the index and with key itself, as a literal path, otherwise,   *)
(* provided that path exists; when the path does not exist the subprocess   *)
(* gets no working directory.  So the preadd hook of a key that is not yet  *)
(* indexed runs in a directory only if key itself names an existing path.   *)
C7_HookCwd ==
  [][\A p \in Procs, name \in HookNames :
       (AtHook(p, name) /\ Happened(p, "spawn", name)')
         => LET e == CHOOSE x \in {log'[p][i] : i \in DOMAIN log'[p]} :
                       Is(x, "spawn", name)
                indexed == Key(p) \in DOMAIN cache[p]
                dir == IF indexed THEN PathJoin(config[p]["base"], Key(p))
                                  ELSE Key(p)
                there == Exists(dir)
            IN /\ e.cwd.set <=> there
               /\ e.cwd.set => e.cwd.path = dir
               /\ (name = "preadd" /\ ~indexed /\ e.cwd.set)
                     => e.cwd.path = Key(p) /\ Exists(Key(p))]_vars

\* C7 witness: a preadd hook was started for a key that is not indexed but
\* has a working copy: the hook ran in the literal path `key`.
C7_Witness ==
  \E p \in Procs :
    /\ Happened(p, "spawn", "preadd")
    /\ ~Has(disk, Key(p))
    /\ TargetPath(p) \in fs
    /\ \E i \in HookSpawns(p) : log[p][i].cwd = [set |-> TRUE, path |-> Key(p)]

(* C8: the environment of every hook subprocess is the ambient environment  *)
(* with the overlay on top: PROJJ_HOOK_NAME is the hook's name, PATH starts *)
(* with the hooks directory and continues with the ambient PATH, whatever   *)
(* the ambient environment holds for them, and every ambient variable the   *)
(* overlay does not set is passed through unchanged.                        *)
C8_HookEnv ==
  \A p \in Procs : \A i \in HookSpawns(p) :
    LET e == log[p][i]
        overlaid == {"PATH", "PROJJ_HOOK_NAME"}
                      \cup (IF Has(config[p], e.what) /\ Truthy(config[p][e.what])
                              THEN {"PROJJ_HOOK_CONFIG"} ELSE {})
    IN /\ DOMAIN e.env = DOMAIN env \cup overlaid
       /\ e.env["PROJJ_HOOK_NAME"] = e.what
       /\ Head(e.env["PATH"]) = hooksDir
       /\ Has(env, "PATH") => Tail(e.env["PATH"]) = env["PATH"]
       /\ \A n \in DOMAIN env \ overlaid : e.env[n] = env[n]

\* C8 witness: a hook was started while the ambient environment defined
\* PROJJ_HOOK_NAME itself.
C8_Witness ==
  \E p \in Procs :
    /\ HookSpawns(p) # {}
    /\ Has(env, "PROJJ_HOOK_NAME")
    /\ Has(env, "PROJJ_HOOK_CONFIG")

-----------------------------------------------------------------------------
(* C9: every hook subprocess gets PROJJ_HOOK_CONFIG set to the JSON text of *)
(* the top-level configuration value stored under the hook's name whenever  *)
(* the configuration has such a key (the values false, 0, "" and null       *)
(* included), and the overlay leaves PROJJ_HOOK_CONFIG alone when there is  *)
(* no such key.  Line 97 tests the value's truthiness instead, so this      *)
(* fails for a stored null, false, 0 or "".                                 *)
C9_HookConfigExported ==
  \A p \in Procs : \A i \in HookSpawns(p) :
    LET e == log[p][i]
    IN IF Has(config[p], e.what)
         THEN /\ Has(e.env, "PROJJ_HOOK_CONFIG")
              /\ e.env["PROJJ_HOOK_CONFIG"] = Stringify(config[p][e.what])
         ELSE /\ Has(e.env, "PROJJ_HOOK_CONFIG") <=> Has(env, "PROJJ_HOOK_CONFIG")
              /\ Has(env, "PROJJ_HOOK_CONFIG")
                   => e.env["PROJJ_HOOK_CONFIG"] = env["PROJJ_HOOK_CONFIG"]

\* The clone's spawn events in log[p].
CloneSpawns(p) == {i \in Idx(p) : Is(log[p][i], "spawn", "clone")}

(* C10 as claimed: the environment of every clone subprocess has GIT_SSH    *)
(* pointing at the program's own helper script, whatever the ambient        *)
(* environment holds.                                                       *)
C10_HelperAlways ==
  \A p \in Procs : \A i \in CloneSpawns(p) :
    /\ Has(log[p][i].env, "GIT_SSH")
    /\ log[p][i].env["GIT_SSH"] = sshHelper

(* C10, amended: the environment of every clone subprocess defines GIT_SSH; *)
(* it points at the program's own helper script when the ambient            *)
(* environment does not define GIT_SSH, and keeps the ambient value when it *)
(* does; every ambient variable is passed through unchanged.                *)
C10_HelperByDefault ==
  \A p \in Procs : \A i \in CloneSpawns(p) :
    LET e == log[p][i]
    IN /\ DOMAIN e.env = DOMAIN env \cup {"GIT_SSH"}
       /\ ~Has(env, "GIT_SSH") => e.env["GIT_SSH"] = sshHelper
       /\ \A n \in DOMAIN env : e.env[n] = env[n]

\* C10 witness: a clone was started from an ambient environment without
\* GIT_SSH, and got the helper.
C10_Witness ==
  \E p \in Procs : \E i \in CloneSpawns(p) :
    /\ ~Has(env, "GIT_SSH")
    /\ log[p][i].env["GIT_SSH"] = sshHelper

-----------------------------------------------------------------------------
\* Process p takes its loadConfig step.
LoadConfigStep(p) == pc[p] = "loadConfig" /\ pc'[p] # "loadConfig"

Prompted(p) == Happened(p, "prompt", "base")
WroteConfig(p) == Happened(p, "writeConfig", "")

(* C11: when config.json exists and defines base, loadConfig neither        *)
(* prompts nor writes the file.  A loadConfig that succeeds leaves a        *)
(* readable config.json behind, a readable config.json is never changed     *)
(* again, and every loadConfig run against one shows no prompt and writes   *)
(* nothing: so after one successful loadConfig no later one prompts or      *)
(* writes.                                                                  *)
C11_NoPromptOnceConfigured ==
  [][\A p \in Procs :
       /\ (LoadConfigStep(p) /\ cfgFile.state = "ok")
            => ~Prompted(p)' /\ ~WroteConfig(p)' /\ cfgFile' = cfgFile
       /\ (LoadConfigStep(p) /\ pc'[p] = "cacheGet") => cfgFile'.state = "ok"
       /\ cfgFile.state = "ok" => cfgFile' = cfgFile]_vars

\* C11 witness: the second invocation has loaded, without a prompt, the
\* configuration that the first one's prompt wrote.
C11_Witness ==
  \E p \in Procs :
    /\ started = 2
    /\ pc[p] = "cacheGet"
    /\ Has(cfgFile.content, "alias")
    /\ Happened(p, "readConfig", "")
    /\ ~Prompted(p)

(* C12: when config.json exists but defines no base, a loadConfig that      *)
(* completes has obtained a base from the prompt and has written the        *)
(* resolved configuration to config.json.  The code does neither: the       *)
(* defaults are merged in before line 73 looks for base.                    *)
C12_PromptWhenBaseMissing ==
  [][\A p \in Procs :
       (LoadConfigStep(p) /\ pc'[p] = "cacheGet" /\ cfgFile.state = "ok"
        /\ ~Has(cfgFile.content, "base"))
         => /\ Prompted(p)'
            /\ WroteConfig(p)'
            /\ cfgFile'.content = config'[p]]_vars

\* readJSON(configPath) threw in this invocation.
ReadFailed(p) ==
  \E i \in Idx(p) : log[p][i].ev = "readConfig" /\ log[p][i].res = "failed"

(* C13: when config.json cannot be read or parsed the command fails: no     *)
(* prompt is shown, the file is not rewritten, the index is not loaded, no  *)
(* step of the add workflow starts, 'Done' is not printed, and the process  *)
(* that has exited has status 1.                                            *)
C13_MalformedConfigFatal ==
  \A p \in Procs :
    /\ ReadFailed(p) =>
         /\ cfgFile.state = "malformed"
         /\ ~Prompted(p) /\ ~WroteConfig(p)
         /\ ~Happened(p, "load", "")
         /\ StepStarts(p) = {}
         /\ cache[p] = EmptyObj
         /\ ~DonePrinted(p)
         /\ pc[p] \in {"catch", "exited"}
         /\ pc[p] = "exited" => exitCode[p] = 1
    /\ (cfgFile.state = "malformed" /\ pc[p] \notin {"idle", "loadConfig"})
         => pc[p] \in {"catch", "exited"} /\ StepStarts(p) = {}

\* C13 witness: an invocation has exited after failing to parse config.json.
C13_Witness ==
  \E p \in Procs :
    /\ ReadFailed(p)
    /\ pc[p] = "exited"
    /\ err[p].name = "SyntaxError"

-----------------------------------------------------------------------------
(* Configuration resolution on its own: resolveConfig applied to every      *)
(* short base, and loadConfig run against files that hold them.             *)

\* Longest base, in characters.
MaxBaseLen == 3

BaseChars == {".", "~", "/", "w"}

BaseStrings == UNION {[1..n -> BaseChars] : n \in 0..MaxBaseLen}

\* Partial configurations: a base in any form, or none.
Partials == {[n \in {"base"} |-> b] : b \in BaseStrings} \cup {EmptyObj}

InitConfig ==
  /\ env = EnvPlain
  /\ cwd \in Cwds
  /\ cfgFile \in {[state |-> "absent", content |-> EmptyObj],
                  [state |-> "malformed", content |-> EmptyObj]}
                 \cup {[state |-> "ok", content |-> c] : c \in Partials}
  /\ partial = cfgFile.content
  /\ results = <<>>
  /\ url = <<>>
  /\ alias = <<>>
  /\ dirs = <<>>
  /\ disk = EmptyObj
  /\ fs = {}
  /\ started = 0
  /\ pc = [p \in Procs |-> "idle"]
  /\ args = [p \in Procs |-> <<U1, K1>>]
  /\ config = [p \in Procs |-> EmptyObj]
  /\ cache = [p \in Procs |-> EmptyObj]
  /\ err = [p \in Procs |-> NoErr]
  /\ log = [p \in Procs |-> <<>>]
  /\ exitCode = [p \in Procs |-> -1]

\* resolveConfig applied to the partial configuration, then to its own result.
Resolve ==
  /\ Len(results) < 2
  /\ results' = Append(results,
                       resolveConfig(IF results = <<>> THEN partial
                                                       ELSE results[1],
                                     defaults, cwd))
  /\ UNCHANGED <<env, cwd, cfgFile, disk, fs, started, pc, args, config,
                 cache, err, log, exitCode, partial, url, alias, dirs>>

NextConfig ==
  \/ Resolve
  \/ \E p \in FirstProc : Start(p) \/ LoadConfig(p) \/ Catch(p)

SpecConfig == InitConfig /\ [][NextConfig]_vars

(* C14: resolveConfig is idempotent: for every partial configuration,       *)
(* whatever the form of its base or without one, resolving the resolved     *)
(* configuration against the same defaults gives the resolved               *)
(* configuration again.                                                     *)
C14_ResolveIdempotent ==
  Len(results) = 2 => results[2] = results[1]

\* C14 witness: a '~'-relative base has been resolved twice, and the first
\* resolution changed it.
C14_Witness ==
  /\ Len(results) = 2
  /\ Has(partial, "base")
  /\ partial["base"] = <<"~", "/", "w">>
  /\ results[1]["base"] # partial["base"]

\* The base a configuration file supplies: its own, or the default one.
Supplied(c) == IF Has(c, "base") THEN c["base"] ELSE defaults["base"]

(* C15: after every successful loadConfig config.base is an absolute path;  *)
(* a base read from the file that starts with '.' is taken from the         *)
(* configuration directory, one that starts with '~' has the '~' replaced   *)
(* by the home directory, one that starts with '/' is kept, and any other   *)
(* is taken from the current working directory.                             *)
C15_BaseAbsolute ==
  \A p \in Procs :
    pc[p] = "cacheGet" =>
      /\ Has(config[p], "base")
      /\ config[p]["base"] # <<>> /\ config[p]["base"][1] = "/"
      /\ Happened(p, "readConfig", "") =>
           LET b == Supplied(cfgFile.content)
               got == config[p]["base"]
           IN CASE b # <<>> /\ b[1] = "." -> got = PathJoin(configDir, b)
                [] b # <<>> /\ b[1] = "~" ->
                     got = HOME \o SubSeq(b, 2, Len(b))
                [] b # <<>> /\ b[1] = "/" -> got = b
                [] OTHER -> got = PathJoin(cwd, b)

\* C15 witness: loadConfig succeeded on a file whose base is bare.
C15_Witness ==
  \E p \in Procs :
    /\ pc[p] = "cacheGet"
    /\ Happened(p, "readConfig", "")
    /\ Has(cfgFile.content, "base")
    /\ cfgFile.content["base"] = <<"w">>

-----------------------------------------------------------------------------
(* The URL normalizer: alias substitution, giturl.parse and url2dir.        *)
(* A URL is a sequence of tokens: a scheme, a host, separators, path        *)
(* segments and an optional ".git".                                         *)

\* Most path segments of a repository URL.
MaxUrlLen == 2

Segments == {"a", "b"}

\* a, a/b, ...: MaxUrlLen segments at most, separated by "/".
RECURSIVE UrlPaths(_)
UrlPaths(n) ==
  IF n = 1 THEN {<<x>> : x \in Segments}
  ELSE UrlPaths(n - 1)
       \cup {<<x, "/">> \o r : x \in Segments, r \in UrlPaths(n - 1)}

UrlTails == UrlPaths(MaxUrlLen) \cup {r \o <<".git">> : r \in UrlPaths(MaxUrlLen)}

UrlHeads ==
  {<<"github://">>, <<"gh://">>,
   <<"https://", "github.com", "/">>, <<"http://", "e.com", "/">>,
   <<"git://", "e.com", "/">>, <<"git@", "e.com", ":">>}

Urls == {h \o t : h \in UrlHeads, t \in UrlTails}

\* The alias table of the defaults, in key order.
DefaultAlias == <<[prefix |-> <<"github://">>,
                   to |-> <<"https://", "github.com", "/">>]>>

\* gh:// is an alias of an alias.
ChainedAlias == <<[prefix |-> <<"gh://">>, to |-> <<"github://">>]>>
                \o DefaultAlias

\* Two prefixes of which one starts with the other.
NestedAlias == <<[prefix |-> <<"gh://">>,
                  to |-> <<"https://", "github.com", "/">>],
                 [prefix |-> <<"gh://", "a", "/">>,
                  to |-> <<"https://", "e.com", "/">>]>>

AliasTables == {<<>>, DefaultAlias, ChainedAlias, NestedAlias}

StartsWith(u, pre) ==
  Len(pre) <= Len(u) /\ SubSeq(u, 1, Len(pre)) = pre

\* The URL with the prefix of entry i replaced by its replacement.
Substitute(u, table, i) ==
  table[i].to \o SubSeq(u, Len(table[i].prefix) + 1, Len(u))

\* Alias application where the last matching entry wins.
RECURSIVE ApplyAlias_LastMatch(_, _)
ApplyAlias_LastMatch(u, table) ==
  IF table = <<>> THEN u
  ELSE IF StartsWith(u, table[Len(table)].prefix)
       THEN Substitute(u, table, Len(table))
       ELSE ApplyAlias_LastMatch(u, SubSeq(table, 1, Len(table) - 1))

\* The alias table applied to a URL: the first entry, in table order, whose
\* prefix the URL starts with is substituted, once.
RECURSIVE ApplyAlias(_, _)
ApplyAlias(u, table) ==
  IF table = <<>> THEN u
  ELSE IF StartsWith(u, Head(table).prefix)
       THEN Substitute(u, table, 1)
       ELSE ApplyAlias(u, Tail(table))

Schemes == {"https://", "http://", "git://"}

\* giturl.parse: the https form of a git, ssh or http(s) URL, without the
\* ".git" suffix; a URL of no known transport is returned as it is.
GitUrlParse(u) ==
  LET bare == IF u # <<>> /\ Last(u) = ".git"
              THEN SubSeq(u, 1, Len(u) - 1) ELSE u
  IN IF bare = <<>> THEN <<>>
     ELSE IF bare[1] \in Schemes THEN <<"https://">> \o Tail(bare)
     ELSE IF Len(bare) >= 3 /\ bare[1] = "git@" /\ bare[3] = ":"
          THEN <<"https://", bare[2], "/">> \o SubSeq(bare, 4, Len(bare))
     ELSE u

\* s.replace(/https?:\/\//, ''): the first scheme token, wherever it is.
RECURSIVE StripScheme(_)
StripScheme(u) ==
  IF u = <<>> THEN <<>>
  ELSE IF Head(u) \in {"https://", "http://"} THEN Tail(u)
  ELSE <<Head(u)>> \o StripScheme(Tail(u))

url2dir(u) == StripScheme(GitUrlParse(u))

\* The canonical path of a URL under an alias table.
CanonicalPath(u, table) == url2dir(ApplyAlias(u, table))

InitUrl ==
  /\ url \in Urls
  /\ alias \in AliasTables
  /\ dirs = <<>>
  /\ partial = EmptyObj
  /\ results = <<>>
  /\ env = EnvPlain
  /\ cwd = W
  /\ cfgFile = [state |-> "absent", content |-> EmptyObj]
  /\ disk = EmptyObj
  /\ fs = {}
  /\ started = 0
  /\ pc = [p \in Procs |-> "idle"]
  /\ args = [p \in Procs |-> <<U1, K1>>]
  /\ config = [p \in Procs |-> EmptyObj]
  /\ cache = [p \in Procs |-> EmptyObj]
  /\ err = [p \in Procs |-> NoErr]
  /\ log = [p \in Procs |-> <<>>]
  /\ exitCode = [p \in Procs |-> -1]

\* The URL is normalized.
NormalizeUrl ==
  /\ dirs = <<>>
  /\ dirs' = <<[of |-> url, entry |-> 0, dir |-> CanonicalPath(url, alias)]>>
  /\ UNCHANGED <<env, cwd, cfgFile, disk, fs, started, pc, args, config,
                 cache, err, log, exitCode, partial, results, url, alias>>

\* The URL with one matching prefix replaced by hand is normalized.
NormalizeSubstituted ==
  /\ Len(dirs) = 1
  /\ \E i \in 1..Len(alias) :
       /\ StartsWith(url, alias[i].prefix)
       /\ dirs' = Append(dirs,
                         [of |-> Substitute(url, alias, i), entry |-> i,
                          dir |-> CanonicalPath(Substitute(url, alias, i),
                                                alias)])
  /\ UNCHANGED <<env, cwd, cfgFile, disk, fs, started, pc, args, config,
                 cache, err, log, exitCode, partial, results, url, alias>>

NextUrl == NormalizeUrl \/ NormalizeSubstituted

SpecUrl == InitUrl /\ [][NextUrl]_vars

\* The entries of the table whose prefix the URL starts with.
Matching(u, table) ==
  {i \in 1..Len(table) : StartsWith(u, table[i].prefix)}

-----------------------------------------------------------------------------
(* Invocations run at the same time, as two operating-system processes      *)
(* that share the configuration file, the index file and the base.          *)

\* Configuration files the concurrent invocations start from.
ConcConfigFiles ==
  {[state |-> "absent", content |-> EmptyObj],
   [state |-> "ok",
    content |-> [n \in {"base", "hooks"} |-> IF n = "base" THEN W ELSE EmptyObj]]}

InitConc ==
  /\ env = EnvPlain
  /\ cwd = W
  /\ cfgFile \in ConcConfigFiles
  /\ disk = EmptyObj
  /\ fs = {}
  /\ started = 0
  /\ pc = [p \in Procs |-> "idle"]
  /\ args = [p \in Procs |-> <<U1, K1>>]
  /\ config = [p \in Procs |-> EmptyObj]
  /\ cache = [p \in Procs |-> EmptyObj]
  /\ err = [p \in Procs |-> NoErr]
  /\ log = [p \in Procs |-> <<>>]
  /\ exitCode = [p \in Procs |-> -1]
  /\ PureIdle

\* A process is started whatever the other processes are doing.
StartConcurrent(p) ==
  /\ pc[p] \in Stopped
  /\ started < MaxRuns
  /\ started' = started + 1
  /\ \E a \in AddArgs : args' = [args EXCEPT ![p] = a]
  /\ pc' = [pc EXCEPT ![p] = "loadConfig"]
  /\ config' = [config EXCEPT ![p] = EmptyObj]
  /\ cache' = [cache EXCEPT ![p] = EmptyObj]
  /\ err' = [err EXCEPT ![p] = NoErr]
  /\ log' = [log EXCEPT ![p] = <<>>]
  /\ exitCode' = [exitCode EXCEPT ![p] = -1]
  /\ UNCHANGED <<pure, env, cwd, cfgFile, disk, fs>>

NextConc ==
  \E p \in Procs :
    \/ StartConcurrent(p)
    \/ LoadConfig(p)
    \/ CacheLoad(p)
    \/ PreaddHook(p)
    \/ Clone(p)
    \/ CacheSet(p)
    \/ CacheDump(p)
    \/ PostaddHook(p)
    \/ Finish(p)
    \/ Catch(p)

SpecConc == InitConc /\ [][NextConc]_vars

\* Both invocations have finished an add of different keys, and neither had
\* the other's entry in the index it loaded.
BothAdded ==
  /\ \A p \in Procs : pc[p] = "done" /\ Happened(p, "dump", "")
  /\ \A p, q \in Procs : p # q => Key(p) # Key(q) /\ ~Has(cache[p], Key(q))

(* C17: two invocations that run at the same time on one index file, each   *)
(* loading the index and then adding a different key with success, can      *)
(* finish with an index file that lacks the entry of one of them: when      *)
(* neither loaded the other's entry, the file is the in-memory index of one *)
(* invocation and lacks the key of the other, although both working copies  *)
(* exist and both invocations printed Done.                                 *)
C17_LostUpdate ==
  BothAdded =>
    /\ \A p \in Procs : TargetPath(p) \in fs /\ DonePrinted(p) /\ exitCode[p] = 0
    /\ \E p, q \in Procs : p # q /\ disk = cache[p] /\ ~Has(disk, Key(q))

\* C17 witness: both invocations finished with success and the index file
\* has the entry of the second process only.
C17_Witness ==
  /\ BothAdded
  /\ Has(disk, Key(2))
  /\ ~Has(disk, Key(1))
  /\ TargetPath(1) \in fs
  /\ DonePrinted(1)

-----------------------------------------------------------------------------
(* Invocations run one at a time, any of which may be killed between two    *)
(* of its steps.                                                            *)

\* The process dies where it stands: nothing of run's try or catch is
\* executed any more, and the files stay as they are.
Crash(p) ==
  /\ pc[p] \notin Stopped
  /\ pc' = [pc EXCEPT ![p] = "crashed"]
  /\ UNCHANGED <<pure, env, cwd, cfgFile, disk, fs, started, args, config,
                 cache, err, log, exitCode>>

NextCrash == \E p \in FirstProc : Step(p) \/ Crash(p)

SpecCrash == Init /\ [][NextCrash]_vars

\* The base every invocation resolves from the configuration file.
BaseOnFile == resolveConfig(cfgFile.content, defaults, cwd)["base"]

\* The working copy of a key.
WorkingCopy(k) == PathJoin(BaseOnFile, k)

Keys == {a[2] : a \in AddArgs}

(* C18: after any sequence of adds run one at a time, each succeeding,      *)
(* failing at any step or crashing between two steps, every key of the      *)
(* index file has a working copy at base/key; an invocation that has        *)
(* written the index had its clone succeed before.                          *)
C18_IndexedImpliesWorkingCopy ==
  /\ \A k \in DOMAIN disk : cfgFile.state = "ok" /\ WorkingCopy(k) \in fs
  /\ \A p \in Procs :
       (\E i \in Idx(p) : Is(log[p][i], "dump", "") /\ log[p][i].res = "ok")
         => /\ ChildOk(p, "clone")
            /\ TargetPath(p) = WorkingCopy(Key(p))
            /\ Has(disk, Key(p))

\* C18 witness: after a crash of a later invocation past its clone, the index
\* holds the key of an earlier add and not the key of the crashed one.
C18_Witness ==
  \E p \in Procs :
    /\ started = 2
    /\ pc[p] = "crashed"
    /\ ChildOk(p, "clone")
    /\ DOMAIN disk = Keys \ {Key(p)}
    /\ WorkingCopy(Key(p)) \in fs

\* The clone succeeded and the index has not been written since.
InWindow(p) ==
  /\ pc[p] \in {"set", "dump", "crashed"}
  /\ ChildOk(p, "clone")
  /\ ~Happened(p, "dump", "")

\* A working copy the index file does not know, given the configuration
\* file, the directories and the index file.
OrphanIn(file, files, index, k) ==
  /\ file.state = "ok"
  /\ PathJoin(resolveConfig(file.content, defaults, cwd)["base"], k) \in files
  /\ ~Has(index, k)

Orphan(k) == OrphanIn(cfgFile, fs, disk, k)

(* C20: from the success of the clone until cache.dump() completes, and     *)
(* after a crash in between, the working copy is at base/key and no step    *)
(* has written the index file; a crash there leaves a key that was not        *)
(* indexed before with a working copy and without an entry; an invocation   *)
(* that loads the index afterwards gets the file's entries only; and no     *)
(* step gives such a key its entry except the cache.dump() of a new add of  *)
(* that same key.                                                           *)
C20_InconsistencyWindow ==
  /\ [](\A p \in Procs : InWindow(p) => TargetPath(p) \in fs)
  /\ [][\A p \in Procs : InWindow(p)' => disk' = disk]_vars
  /\ [][\A p \in Procs :
          (InWindow(p) /\ pc'[p] = "crashed" /\ ~Has(disk, Key(p)))
            => OrphanIn(cfgFile', fs', disk', Key(p))]_vars
  /\ [][\A p \in Procs :
          (pc[p] = "cacheGet" /\ pc'[p] = "preadd")
            => /\ cache'[p] = disk
               /\ \A k \in Keys : Orphan(k) => ~Has(cache'[p], k)]_vars
  /\ [][\A k \in Keys :
          (Orphan(k) /\ ~OrphanIn(cfgFile', fs', disk', k))
            => \E p \in Procs :
                 /\ pc[p] = "dump" /\ pc'[p] = "postadd"
                 /\ Key(p) = k /\ ChildOk(p, "clone")]_vars

\* C20 witness: the process was killed between cache.set and cache.dump; the
\* working copy exists, memory had the entry and the index file has not.
C20_Witness ==
  \E p \in Procs :
    /\ pc[p] = "crashed"
    /\ Happened(p, "set", "")
    /\ InWindow(p)
    /\ Has(cache[p], Key(p))
    /\ Orphan(Key(p))

-----------------------------------------------------------------------------
\* The children runScript is called for.
Children == HookNames \cup {"clone"}

(* C19 as stated: for every failure of the subprocess runner inside         *)
(* runScript, a non-zero exit or a failure without captured stdio such as   *)
(* a spawn error, the error that reaches run's catch is the runner's own    *)
(* error, and the captured standard error, when there is any, was written   *)
(* to the child logger before.                                              *)
C19_RunScriptPropagates ==
  \A p \in Procs : \A i \in Idx(p) :
    (/\ pc[p] \in {"catch", "exited"}
     /\ log[p][i].ev = "exit"
     /\ log[p][i].what \in Children
     /\ log[p][i].res # "ok")
      => /\ err[p] = RunscriptError([kind |-> log[p][i].res],
                                    log[p][i].what)
         /\ \A j \in Idx(p) :
              Is(log[p][j], "stderr", log[p][i].what) => j = i + 1

====
